---------------------------- MODULE Spec2Model ----------------------------
(***************************************************************************)
(* MatchTable of template-switch-error-free-inners (src/src/lib.rs).       *)
(*                                                                         *)
(* MatchTable::new is modelled as a sequential process whose steps are the *)
(* phases of the function (the places of its debug! statements and its two *)
(* outer loops, one step per outer-loop iteration); the four accessors are *)
(* modelled as calls on the returned, immutable table.                     *)
(*                                                                         *)
(* Genome strings are sequences of one-character strings.  Offsets are     *)
(* 0-based as in the source; TLA+ sequences are 1-based, so bit a of a     *)
(* BitVec is element a + 1 of the sequence that models it.                 *)
(*                                                                         *)
(* usize is modelled with UsizeBits bits.  The build profile decides what  *)
(* an arithmetic overflow and a debug_assert! do: the debug profile panics *)
(* on both, the release profile wraps the arithmetic and compiles the      *)
(* debug_assert! away.                                                     *)
(***************************************************************************)
EXTENDS Integers, Sequences, FiniteSets

VARIABLES
    profile,                \* "debug" | "release": the cargo profile of the build
    reference,              \* argument reference, as a string
    query,                  \* argument query, as a string
    minimum_length,         \* argument minimum_length
    pc,                     \* position in MatchTable::new
    panic,                  \* "none", or the panic that ended MatchTable::new
    reference_rc,           \* local reference_rc
    query_rc,               \* local query_rc
    reference_index,        \* local reference_index (the suffix table)
    query_index,            \* local query_index (the suffix table)
    reference_kmer_count,   \* local, then field reference_kmer_count
    query_kmer_count,       \* local, then field query_kmer_count
    reference_reference,    \* local, then field reference_reference
    reference_query,        \* local, then field reference_query
    query_reference,        \* local, then field query_reference
    query_query,            \* local, then field query_query
    kmer_index,             \* reference_rc_kmer_index / query_rc_kmer_index
    pending,                \* outer-loop iterations not yet run (SpecAnyOrder only)
    call                    \* the last accessor call on the returned table

vars == <<profile, reference, query, minimum_length, pc, panic, reference_rc,
          query_rc, reference_index, query_index, reference_kmer_count,
          query_kmer_count, reference_reference, reference_query,
          query_reference, query_query, kmer_index, pending, call>>

inputs == <<profile, reference, query, minimum_length>>
strings == <<reference_rc, query_rc>>
indexes == <<reference_index, query_index>>
counts == <<reference_kmer_count, query_kmer_count>>
relations == <<reference_reference, reference_query, query_reference, query_query>>

(***************************************************************************)
(* Bounds of the model.                                                    *)
(***************************************************************************)
\* Longest enumerated input sequence.
MaxLen == 3
\* Width of the modelled usize.
UsizeBits == 10

UsizeModulus == 2 ^ UsizeBits
\* bitvec's BitVec holds at most usize::MAX >> 3 bits.
MaxBits == (UsizeModulus \div 8) - 1

(***************************************************************************)
(* Alphabet, reverse complement, strings.                                  *)
(***************************************************************************)
DnaAlphabet == {"A", "C", "G", "T"}

\* Byte order of the characters, which is the order of the suffix table.
CharRank(c) == CASE c = "A" -> 0 [] c = "C" -> 1 [] c = "G" -> 2 [] c = "T" -> 3

Complement(c) == CASE c = "A" -> "T" [] c = "T" -> "A" [] c = "C" -> "G" [] c = "G" -> "C"

ComplementOnly(s) == [i \in 1..Len(s) |-> Complement(s[i])]

\* reverse_complement_iter, collected and rendered with as_string.
ReverseComplement(s) == [i \in 1..Len(s) |-> Complement(s[Len(s) + 1 - i])]

\* &text[start..end] on byte offsets.
Slice(text, start, end) == SubSeq(text, start + 1, end)

\* char_indices().map(|(index, _)| index).chain(iter::once(len)): every
\* character is one byte, so entry i (0-based) is i.
CharacterOffsets(text) == [i \in 1..(Len(text) + 1) |-> i - 1]

(***************************************************************************)
(* The exact-substring index: suffix::SuffixTable.                         *)
(***************************************************************************)
RECURSIVE SeqLess(_, _)
SeqLess(a, b) ==
    IF Len(a) = 0 THEN Len(b) > 0
    ELSE IF Len(b) = 0 THEN FALSE
    ELSE IF a[1] # b[1] THEN CharRank(a[1]) < CharRank(b[1])
    ELSE SeqLess(Tail(a), Tail(b))

Suffix(text, offset) == SubSeq(text, offset + 1, Len(text))

\* SuffixTable::new: the suffix offsets in the lexicographic order of the suffixes.
SuffixTableNew(text) ==
    [i \in 1..Len(text) |->
        CHOOSE a \in 0..(Len(text) - 1) :
            Cardinality({b \in 0..(Len(text) - 1) :
                            SeqLess(Suffix(text, b), Suffix(text, a))}) = i - 1]

StartsWith(text, pattern) ==
    /\ Len(pattern) <= Len(text)
    /\ SubSeq(text, 1, Len(pattern)) = pattern

\* SuffixTable::positions: the slice of the table whose suffixes start with
\* the pattern (contiguous, as the table is sorted); empty for an empty text
\* or an empty pattern.
Positions(text, table, pattern) ==
    IF Len(text) = 0 \/ Len(pattern) = 0 THEN << >>
    ELSE LET Hit(a) == StartsWith(Suffix(text, a), pattern)
         IN SelectSeq(table, Hit)


(***************************************************************************)
(* usize arithmetic and the bit vectors.                                   *)
(***************************************************************************)
\* The outcome of a usize operation whose mathematical result is x: with
\* overflow checks (debug) an out-of-range result panics, without them
\* (release) it wraps.
Usize(x) ==
    IF x \in 0..(UsizeModulus - 1) THEN [overflow |-> FALSE, value |-> x]
    ELSE IF profile = "debug" THEN [overflow |-> TRUE, value |-> 0]
    ELSE [overflow |-> FALSE, value |-> x % UsizeModulus]

KmerCountOffByOne(length) ==
    LET difference == Usize(length - minimum_length)
    IN IF difference.overflow THEN difference ELSE Usize(difference.value)

\* length - minimum_length + 1, evaluated left to right.
KmerCount(length) ==
    LET difference == Usize(length - minimum_length)
    IN IF difference.overflow THEN difference ELSE Usize(difference.value + 1)

\* BitVec::repeat(false, length).
BitVecRepeat(length) == [i \in 1..length |-> FALSE]

BitAddressNoStride(primary_index, secondary_count, secondary_index) ==
    primary_index + secondary_index

\* primary_index * secondary_count + secondary_index: the bit a loop sets.
BitAddress(primary_index, secondary_count, secondary_index) ==
    primary_index * secondary_count + secondary_index

\* The addresses one inner loop sets: one per position the index returns.
WriteAddresses(positions, secondary_count, secondary_index) ==
    {BitAddress(positions[i], secondary_count, secondary_index) : i \in 1..Len(positions)}

SetAllOverwriting(bits, addresses) ==
    [i \in 1..Len(bits) |-> (i - 1) \in addresses]

\* bits.set(address, true) for every address; the caller has checked that
\* every address is in bounds.
SetAll(bits, addresses) ==
    [i \in 1..Len(bits) |-> bits[i] \/ (i - 1) \in addresses]

InBounds(bits, addresses) == \A a \in addresses : a < Len(bits)

(***************************************************************************)
(* The inputs.                                                             *)
(***************************************************************************)
SequencesUpTo(alphabet, length) == UNION {[1..n -> alphabet] : n \in 0..length}

\* Every DNA sequence of at most two symbols, and every sequence over A and
\* T of at most MaxLen symbols.
EnumeratedSequences ==
    SequencesUpTo(DnaAlphabet, 2) \cup SequencesUpTo({"A", "T"}, MaxLen)

\* The inputs of the tests reference_reference, reference_query and
\* query_query, with their minimum length.
ReferenceReferenceTestInput ==
    << <<"A","G","G","G","G","A","A","C","C","C","C","A","A">>,
       <<"A","A","A","A","A","A","A","A">>, 4 >>

ReferenceQueryTestInput ==
    << <<"A","G","G","G","G","A","A">>, <<"A","A","C","C","C","C","A">>, 4 >>

QueryQueryTestInput ==
    << <<"A","A","A","A","A","A","A">>,
       <<"A","A","C","C","C","C","A","G","G","G","G","A">>, 4 >>

TestInputs ==
    {ReferenceReferenceTestInput, ReferenceQueryTestInput, QueryQueryTestInput}

EnumeratedInputs ==
    EnumeratedSequences \X EnumeratedSequences \X (0..(MaxLen + 2))

Inputs == EnumeratedInputs \cup TestInputs

NoCall ==
    [accessor |-> "none", primary_index |-> 0, secondary_rc_index |-> 0,
     outcome |-> "none", value |-> FALSE]

InitFrom(input_set) ==
    /\ profile \in {"debug", "release"}
    /\ \E input \in input_set :
        /\ reference = input[1]
        /\ query = input[2]
        /\ minimum_length = input[3]
    /\ pc = "assert"
    /\ panic = "none"
    /\ reference_rc = << >>
    /\ query_rc = << >>
    /\ reference_index = << >>
    /\ query_index = << >>
    /\ reference_kmer_count = 0
    /\ query_kmer_count = 0
    /\ reference_reference = << >>
    /\ reference_query = << >>
    /\ query_reference = << >>
    /\ query_query = << >>
    /\ kmer_index = 0
    /\ pending = {}
    /\ call = NoCall

Init == InitFrom(Inputs)

(***************************************************************************)
(* MatchTable::new, phase by phase.                                        *)
(***************************************************************************)
Panic(reason) ==
    /\ pc' = "panicked"
    /\ panic' = reason

MinimumLengthUnchecked == TRUE

\* The condition of assert!(minimum_length > 0).
MinimumLengthAsserted == minimum_length > 0

\* assert!(minimum_length > 0);
AssertMinimumLength ==
    /\ pc = "assert"
    /\ IF MinimumLengthAsserted
       THEN pc' = "convert" /\ panic' = panic
       ELSE Panic("assertion failed: minimum_length > 0")
    /\ UNCHANGED <<inputs, strings, indexes, counts, relations, kmer_index, pending, call>>

\* "Converting genomes to strings"
ConvertGenomes ==
    /\ pc = "convert"
    /\ reference_rc' = ReverseComplement(reference)
    /\ query_rc' = ReverseComplement(query)
    /\ pc' = "index"
    /\ UNCHANGED <<inputs, panic, indexes, counts, relations, kmer_index, pending, call>>

\* "Computing indexes"
ComputeIndexes ==
    /\ pc = "index"
    /\ reference_index' = SuffixTableNew(reference)
    /\ query_index' = SuffixTableNew(query)
    /\ pc' = "count"
    /\ UNCHANGED <<inputs, panic, strings, counts, relations, kmer_index, pending, call>>

\* "Initialising bitvectors", the two k-mer counts.
ComputeKmerCounts ==
    /\ pc = "count"
    /\ LET r == KmerCount(Len(reference))
           q == KmerCount(Len(query))
       IN IF r.overflow
          THEN /\ Panic("attempt to subtract with overflow")
               /\ UNCHANGED counts
          ELSE IF q.overflow
          THEN /\ Panic("attempt to subtract with overflow")
               /\ reference_kmer_count' = r.value
               /\ UNCHANGED query_kmer_count
          ELSE /\ reference_kmer_count' = r.value
               /\ query_kmer_count' = q.value
               /\ pc' = "allocate"
               /\ panic' = panic
    /\ UNCHANGED <<inputs, strings, indexes, relations, kmer_index, pending, call>>

\* The outer-loop iterations: the loop each belongs to and its k-mer index.
Iterations ==
    ({"reference_rc"} \X (0..(reference_kmer_count - 1)))
        \cup ({"query_rc"} \X (0..(query_kmer_count - 1)))

\* "Initialising bitvectors", the four BitVec::repeat(false, primary *
\* secondary).  A product that overflows panics with overflow checks and
\* wraps without; a length above the capacity of a BitVec panics.
\* next_pc and next_pending say how the loops that follow are run.
Allocate(next_pc, next_pending) ==
    /\ pc = "allocate"
    /\ LET rr == Usize(reference_kmer_count * reference_kmer_count)
           rq == Usize(reference_kmer_count * query_kmer_count)
           qr == Usize(query_kmer_count * reference_kmer_count)
           qq == Usize(query_kmer_count * query_kmer_count)
       IN IF rr.overflow \/ rq.overflow \/ qr.overflow \/ qq.overflow
          THEN /\ Panic("attempt to multiply with overflow")
               /\ UNCHANGED <<relations, kmer_index, pending>>
          ELSE IF \E n \in {rr.value, rq.value, qr.value, qq.value} : n > MaxBits
          THEN /\ Panic("bit-vector capacity exceeded")
               /\ UNCHANGED <<relations, kmer_index, pending>>
          ELSE /\ reference_reference' = BitVecRepeat(rr.value)
               /\ reference_query' = BitVecRepeat(rq.value)
               /\ query_reference' = BitVecRepeat(qr.value)
               /\ query_query' = BitVecRepeat(qq.value)
               /\ kmer_index' = 0
               /\ pending' = next_pending
               /\ pc' = next_pc
               /\ panic' = panic
    /\ UNCHANGED <<inputs, strings, indexes, counts, call>>

AllocateBitvectors == Allocate("reference_loop", {})

\* Both indexes of &text[offsets[kmer_index]..offsets[kmer_index +
\* minimum_length]] are inside the offset table.
KmerInBounds(text, index) ==
    index + minimum_length < Len(CharacterOffsets(text))

\* &text[offsets[index]..offsets[index + minimum_length]]
Kmer(text, index) ==
    Slice(text, CharacterOffsets(text)[index + 1],
                CharacterOffsets(text)[index + minimum_length + 1])

\* The bits the iteration of the first loop for reference_rc_kmer_index
\* sets in reference_reference and in query_reference.
ReferenceRcWrites(reference_rc_kmer_index) ==
    LET reference_rc_kmer == Kmer(reference_rc, reference_rc_kmer_index)
    IN [reference_reference |->
            WriteAddresses(Positions(reference, reference_index, reference_rc_kmer),
                           reference_kmer_count, reference_rc_kmer_index),
        query_reference |->
            WriteAddresses(Positions(query, query_index, reference_rc_kmer),
                           reference_kmer_count, reference_rc_kmer_index)]

QueryRcWritesWrongStride(query_rc_kmer_index) ==
    LET query_rc_kmer == Kmer(query_rc, query_rc_kmer_index)
    IN [reference_query |->
            WriteAddresses(Positions(reference, reference_index, query_rc_kmer),
                           reference_kmer_count, query_rc_kmer_index),
        query_query |->
            WriteAddresses(Positions(query, query_index, query_rc_kmer),
                           query_kmer_count, query_rc_kmer_index)]

QueryRcWritesWrongIndex(query_rc_kmer_index) ==
    LET query_rc_kmer == Kmer(query_rc, query_rc_kmer_index)
    IN [reference_query |->
            WriteAddresses(Positions(query, query_index, query_rc_kmer),
                           query_kmer_count, query_rc_kmer_index),
        query_query |->
            WriteAddresses(Positions(query, query_index, query_rc_kmer),
                           query_kmer_count, query_rc_kmer_index)]

\* The bits the iteration of the second loop for query_rc_kmer_index sets
\* in reference_query and in query_query.
QueryRcWrites(query_rc_kmer_index) ==
    LET query_rc_kmer == Kmer(query_rc, query_rc_kmer_index)
    IN [reference_query |->
            WriteAddresses(Positions(reference, reference_index, query_rc_kmer),
                           query_kmer_count, query_rc_kmer_index),
        query_query |->
            WriteAddresses(Positions(query, query_index, query_rc_kmer),
                           query_kmer_count, query_rc_kmer_index)]

\* One iteration of the loop over the k-mers of reference_rc.
ReferenceRcIteration(reference_rc_kmer_index, next_pc) ==
    IF ~KmerInBounds(reference_rc, reference_rc_kmer_index)
    THEN /\ Panic("index out of bounds")
         /\ UNCHANGED relations
    ELSE LET writes == ReferenceRcWrites(reference_rc_kmer_index)
         IN IF /\ InBounds(reference_reference, writes.reference_reference)
               /\ InBounds(query_reference, writes.query_reference)
            THEN /\ reference_reference' =
                        SetAll(reference_reference, writes.reference_reference)
                 /\ query_reference' = SetAll(query_reference, writes.query_reference)
                 /\ UNCHANGED <<reference_query, query_query>>
                 /\ pc' = next_pc
                 /\ panic' = panic
            ELSE /\ Panic("index out of bounds")
                 /\ UNCHANGED relations

\* One iteration of the loop over the k-mers of query_rc.
QueryRcIteration(query_rc_kmer_index, next_pc) ==
    IF ~KmerInBounds(query_rc, query_rc_kmer_index)
    THEN /\ Panic("index out of bounds")
         /\ UNCHANGED relations
    ELSE LET writes == QueryRcWrites(query_rc_kmer_index)
         IN IF /\ InBounds(reference_query, writes.reference_query)
               /\ InBounds(query_query, writes.query_query)
            THEN /\ reference_query' = SetAll(reference_query, writes.reference_query)
                 /\ query_query' = SetAll(query_query, writes.query_query)
                 /\ UNCHANGED <<reference_reference, query_reference>>
                 /\ pc' = next_pc
                 /\ panic' = panic
            ELSE /\ Panic("index out of bounds")
                 /\ UNCHANGED relations

\* for reference_rc_kmer_index in 0..reference_kmer_count { ... }
ReferenceLoop ==
    /\ pc = "reference_loop"
    /\ IF kmer_index < reference_kmer_count
       THEN /\ ReferenceRcIteration(kmer_index, "reference_loop")
            /\ kmer_index' = kmer_index + 1
       ELSE /\ pc' = "query_loop"
            /\ kmer_index' = 0
            /\ UNCHANGED <<panic, relations>>
    /\ UNCHANGED <<inputs, strings, indexes, counts, pending, call>>

\* for query_rc_kmer_index in 0..query_kmer_count { ... }, then Self { ... }
QueryLoop ==
    /\ pc = "query_loop"
    /\ IF kmer_index < query_kmer_count
       THEN /\ QueryRcIteration(kmer_index, "query_loop")
            /\ kmer_index' = kmer_index + 1
       ELSE /\ pc' = "returned"
            /\ kmer_index' = 0
            /\ UNCHANGED <<panic, relations>>
    /\ UNCHANGED <<inputs, strings, indexes, counts, pending, call>>

(***************************************************************************)
(* The accessors of the returned table.                                    *)
(***************************************************************************)
\* debug_assert!(primary), debug_assert!(secondary), then bits[address].
Lookup(bits, primary_in_range, secondary_in_range, address) ==
    IF profile = "debug" /\ ~(primary_in_range /\ secondary_in_range)
    THEN [outcome |-> "debug assertion failed", value |-> FALSE]
    ELSE IF address >= Len(bits)
    THEN [outcome |-> "index out of bounds", value |-> FALSE]
    ELSE [outcome |-> "ok", value |-> bits[address + 1]]

has_reference_reference_match(primary_index, secondary_rc_index) ==
    Lookup(reference_reference,
           primary_index < reference_kmer_count,
           secondary_rc_index < reference_kmer_count,
           primary_index * reference_kmer_count + secondary_rc_index)

has_reference_query_match(primary_index, secondary_rc_index) ==
    Lookup(reference_query,
           primary_index < reference_kmer_count,
           secondary_rc_index < query_kmer_count,
           primary_index * query_kmer_count + secondary_rc_index)

has_query_reference_match_as_transpose(primary_index, secondary_rc_index) ==
    Lookup(reference_query,
           primary_index < query_kmer_count,
           secondary_rc_index < reference_kmer_count,
           secondary_rc_index * query_kmer_count + primary_index)

has_query_reference_match(primary_index, secondary_rc_index) ==
    Lookup(query_reference,
           primary_index < query_kmer_count,
           secondary_rc_index < reference_kmer_count,
           primary_index * reference_kmer_count + secondary_rc_index)

has_query_query_match(primary_index, secondary_rc_index) ==
    Lookup(query_query,
           primary_index < query_kmer_count,
           secondary_rc_index < query_kmer_count,
           primary_index * query_kmer_count + secondary_rc_index)

\* A call of one accessor on the returned table.  The accessors take &self
\* and leave the table as it is, so a later call finds what the first one
\* found: a behaviour holds one call.
Called(accessor, primary_index, secondary_rc_index, result) ==
    /\ call = NoCall
    /\ call' = [accessor |-> accessor, primary_index |-> primary_index,
                secondary_rc_index |-> secondary_rc_index,
                outcome |-> result.outcome, value |-> result.value]
    /\ UNCHANGED <<inputs, pc, panic, strings, indexes, counts, relations,
                   kmer_index, pending>>

\* The indices probed: every index in range and the first one out of range.
Probes(count) == 0..count

HasReferenceReferenceMatch ==
    /\ pc = "returned"
    /\ \E p \in Probes(reference_kmer_count), s \in Probes(reference_kmer_count) :
        Called("has_reference_reference_match", p, s, has_reference_reference_match(p, s))

HasReferenceQueryMatch ==
    /\ pc = "returned"
    /\ \E p \in Probes(reference_kmer_count), s \in Probes(query_kmer_count) :
        Called("has_reference_query_match", p, s, has_reference_query_match(p, s))

HasQueryReferenceMatch ==
    /\ pc = "returned"
    /\ \E p \in Probes(query_kmer_count), s \in Probes(reference_kmer_count) :
        Called("has_query_reference_match", p, s, has_query_reference_match(p, s))

HasQueryQueryMatch ==
    /\ pc = "returned"
    /\ \E p \in Probes(query_kmer_count), s \in Probes(query_kmer_count) :
        Called("has_query_query_match", p, s, has_query_query_match(p, s))

Next ==
    \/ AssertMinimumLength
    \/ ConvertGenomes
    \/ ComputeIndexes
    \/ ComputeKmerCounts
    \/ AllocateBitvectors
    \/ ReferenceLoop
    \/ QueryLoop
    \/ HasReferenceReferenceMatch
    \/ HasReferenceQueryMatch
    \/ HasQueryReferenceMatch
    \/ HasQueryQueryMatch

Spec == Init /\ [][Next]_vars


(***************************************************************************)
(* The outer-loop iterations run in any order: the schedule a data-        *)
(* parallel construction would be free to choose.  The iterations are      *)
(* those of ReferenceLoop and QueryLoop.                                   *)
(***************************************************************************)
AllocateBitvectorsUnordered == Allocate("unordered", Iterations)

RunAnyIteration ==
    /\ pc = "unordered"
    /\ \E iteration \in pending :
        /\ IF iteration[1] = "reference_rc"
           THEN ReferenceRcIteration(iteration[2], "unordered")
           ELSE QueryRcIteration(iteration[2], "unordered")
        /\ pending' = IF pc' = "panicked" THEN {} ELSE pending \ {iteration}
    /\ UNCHANGED <<inputs, strings, indexes, counts, kmer_index, call>>

ReturnUnordered ==
    /\ pc = "unordered"
    /\ pending = {}
    /\ pc' = "returned"
    /\ UNCHANGED <<inputs, panic, strings, indexes, counts, relations, kmer_index,
                   pending, call>>

NextAnyOrder ==
    \/ AssertMinimumLength
    \/ ConvertGenomes
    \/ ComputeIndexes
    \/ ComputeKmerCounts
    \/ AllocateBitvectorsUnordered
    \/ RunAnyIteration
    \/ ReturnUnordered

\* The schedule is considered for the constructions the loops are written
\* for, 1 <= minimum_length <= min(|reference|, |query|), over the
\* enumerated inputs and the input of the test reference_query.
InitAnyOrder ==
    InitFrom({input \in EnumeratedInputs \cup {ReferenceQueryTestInput} :
                /\ input[3] \in 1..Len(input[1])
                /\ input[3] \in 1..Len(input[2])})

SpecAnyOrder == InitAnyOrder /\ [][NextAnyOrder]_vars


(***************************************************************************)
(* The terms of the claims, stated apart from the construction.            *)
(***************************************************************************)
PreconditionsHold ==
    /\ minimum_length \in 1..Len(reference)
    /\ minimum_length \in 1..Len(query)

\* |S| - L + 1, in the integers.
KmerCountOf(text) == Len(text) - minimum_length + 1

KmerIndices(text) == 0..(KmerCountOf(text) - 1)

RECURSIVE Reversed(_)
Reversed(s) == IF s = << >> THEN << >> ELSE Append(Reversed(Tail(s)), Head(s))

ReverseComplementOf(s) == [i \in 1..Len(s) |-> Complement(Reversed(s)[i])]

\* The length-L substring of text that starts at offset.
KmerAt(text, offset) == SubSeq(text, offset + 1, offset + minimum_length)

\* substring(X, p, L) = substring(reverse_complement(Y), s, L)
IsMatch(x, y, p, s) == KmerAt(x, p) = KmerAt(ReverseComplementOf(y), s)

Found(value) == [outcome |-> "ok", value |-> value]

Counted == pc \in {"allocate", "reference_loop", "query_loop", "unordered", "returned"}
Allocated == pc \in {"reference_loop", "query_loop", "unordered", "returned"}

AnyBit(bits) == \E i \in 1..Len(bits) : bits[i]

\* The primary and the secondary sequence of the accessor of the last call.
CallPrimary ==
    IF call.accessor \in {"has_reference_reference_match", "has_reference_query_match"}
    THEN reference ELSE query
CallSecondary ==
    IF call.accessor \in {"has_reference_reference_match", "has_query_reference_match"}
    THEN reference ELSE query
CallPrimaryCount ==
    IF call.accessor \in {"has_reference_reference_match", "has_reference_query_match"}
    THEN reference_kmer_count ELSE query_kmer_count
CallSecondaryCount ==
    IF call.accessor \in {"has_reference_reference_match", "has_query_reference_match"}
    THEN reference_kmer_count ELSE query_kmer_count
CallInRange ==
    /\ call.primary_index < CallPrimaryCount
    /\ call.secondary_rc_index < CallSecondaryCount

(***************************************************************************)
(* C1.  For 1 <= L <= min(|R|, |Q|), every accessor, on every in-range     *)
(* (p, s), returns true exactly when the length-L substring of its primary *)
(* sequence at p equals the length-L substring of the reverse complement   *)
(* of its secondary sequence at s: for the whole returned table, and for   *)
(* the call that was made on it.                                           *)
(***************************************************************************)
C1_ExactMatches ==
    (pc = "returned" /\ PreconditionsHold) =>
        /\ \A p \in KmerIndices(reference), s \in KmerIndices(reference) :
            has_reference_reference_match(p, s) = Found(IsMatch(reference, reference, p, s))
        /\ \A p \in KmerIndices(reference), s \in KmerIndices(query) :
            has_reference_query_match(p, s) = Found(IsMatch(reference, query, p, s))
        /\ \A p \in KmerIndices(query), s \in KmerIndices(reference) :
            has_query_reference_match(p, s) = Found(IsMatch(query, reference, p, s))
        /\ \A p \in KmerIndices(query), s \in KmerIndices(query) :
            has_query_query_match(p, s) = Found(IsMatch(query, query, p, s))
        /\ (call # NoCall /\ CallInRange) =>
            /\ call.outcome = "ok"
            /\ call.value = IsMatch(CallPrimary, CallSecondary,
                                    call.primary_index, call.secondary_rc_index)

\* A call found a match between overlapping k-mers of the reference, in a
\* relation that also holds a cell without a match.
C1_Witness ==
    /\ pc = "returned"
    /\ PreconditionsHold
    /\ minimum_length >= 2
    /\ Len(reference) > minimum_length
    /\ call.accessor = "has_reference_reference_match"
    /\ CallInRange
    /\ call.value
    /\ \E i \in 1..Len(reference_reference) : ~reference_reference[i]

(***************************************************************************)
(* C2.  For L >= 1 with L > |R| or L > |Q|, MatchTable::new fails: it      *)
(* never gets a k-mer count out of the subtraction |S| - L + 1 and goes on *)
(* with it, and it never returns a table.                                  *)
(***************************************************************************)
C2_TooLongFails ==
    (minimum_length >= 1 /\ (minimum_length > Len(reference) \/ minimum_length > Len(query)))
        => ~Counted

(***************************************************************************)
(* C3.  MatchTable::new(R, Q, 0) fails on its assertion before anything is *)
(* built: no string, no index, no count, no bit vector, no table.          *)
(***************************************************************************)
C3_ZeroLengthFails ==
    (minimum_length = 0) =>
        /\ pc \in {"assert", "panicked"}
        /\ pc = "panicked" => panic = "assertion failed: minimum_length > 0"
        /\ strings = << << >>, << >> >>
        /\ indexes = << << >>, << >> >>
        /\ counts = <<0, 0>>
        /\ relations = << << >>, << >>, << >>, << >> >>
        /\ call = NoCall

C3_Witness ==
    /\ minimum_length = 0
    /\ pc = "panicked"
    /\ Len(reference) > 0
    /\ Len(query) > 0

(***************************************************************************)
(* C4.  On a table constructed under the preconditions, an accessor called *)
(* with p >= kmer_count(X) or s >= kmer_count(Y) fails; it never returns a *)
(* stored bit.                                                             *)
(***************************************************************************)
C4_OutOfRangeFails ==
    (PreconditionsHold /\ call # NoCall /\ ~CallInRange) => call.outcome # "ok"

(***************************************************************************)
(* C5.  For 1 <= L <= min(|R|, |Q|): once computed, reference_kmer_count   *)
(* is |R| - L + 1 and query_kmer_count is |Q| - L + 1 (1 when |S| = L);    *)
(* from their allocation to the return and after it, the four relations    *)
(* hold primary count times secondary count bits.                          *)
(***************************************************************************)
C5_CountsAndSizes ==
    PreconditionsHold =>
        /\ Counted =>
            /\ reference_kmer_count = KmerCountOf(reference)
            /\ query_kmer_count = KmerCountOf(query)
            /\ Len(reference) = minimum_length => reference_kmer_count = 1
            /\ Len(query) = minimum_length => query_kmer_count = 1
        /\ Allocated =>
            /\ Len(reference_reference) = KmerCountOf(reference) * KmerCountOf(reference)
            /\ Len(reference_query) = KmerCountOf(reference) * KmerCountOf(query)
            /\ Len(query_reference) = KmerCountOf(query) * KmerCountOf(reference)
            /\ Len(query_query) = KmerCountOf(query) * KmerCountOf(query)

\* A returned table with |R| = L and |Q| > L.
C5_Witness ==
    /\ pc = "returned"
    /\ PreconditionsHold
    /\ Len(reference) = minimum_length
    /\ Len(query) > minimum_length + 1
    /\ reference_kmer_count = 1
    /\ Len(reference_query) = query_kmer_count
    /\ AnyBit(reference_query)

(***************************************************************************)
(* C6.  has_reference_query_match returns the bit of reference_query and   *)
(* has_query_reference_match the bit of query_reference, and the two       *)
(* relations are not transposes: for reference AGGGGAA, query AACCCCA and  *)
(* L = 4 the only match of reference_query is (1, 1) and the only match of *)
(* query_reference is (2, 2).                                              *)
(***************************************************************************)
C6_IndependentRelations ==
    (pc = "returned") =>
        /\ (call.accessor = "has_reference_query_match" /\ call.outcome = "ok") =>
            call.value = reference_query[call.primary_index * query_kmer_count
                                            + call.secondary_rc_index + 1]
        /\ (call.accessor = "has_query_reference_match" /\ call.outcome = "ok") =>
            call.value = query_reference[call.primary_index * reference_kmer_count
                                            + call.secondary_rc_index + 1]
        /\ (<<reference, query, minimum_length>> = ReferenceQueryTestInput) =>
            \A i \in 0..3, j \in 0..3 :
                /\ has_reference_query_match(i, j) = Found(i = 1 /\ j = 1)
                /\ has_query_reference_match(j, i) = Found(j = 2 /\ i = 2)

\* On the table of the test, has_query_reference_match(2, 2) returned true
\* where has_reference_query_match(2, 2) is false.
C6_Witness ==
    /\ pc = "returned"
    /\ <<reference, query, minimum_length>> = ReferenceQueryTestInput
    /\ call.accessor = "has_query_reference_match"
    /\ call.primary_index = 2
    /\ call.secondary_rc_index = 2
    /\ call.value
    /\ ~has_reference_query_match(2, 2).value


(***************************************************************************)
(* C7.  With the outer-loop iterations run in any order: the write sets of *)
(* two different iterations are disjoint in every relation; at every point *)
(* each relation holds exactly the writes of the iterations that have run, *)
(* those of the reference_rc loop in reference_reference and               *)
(* query_reference only, those of the query_rc loop in reference_query and *)
(* query_query only; and the table returned is the table of the            *)
(* sequential order.                                                       *)
(***************************************************************************)
RelationNames == {"reference_reference", "reference_query", "query_reference", "query_query"}

\* The addresses an iteration sets, relation by relation.
IterationWrites(iteration) ==
    IF iteration[1] = "reference_rc"
    THEN LET writes == ReferenceRcWrites(iteration[2])
         IN [reference_reference |-> writes.reference_reference,
             reference_query |-> {},
             query_reference |-> writes.query_reference,
             query_query |-> {}]
    ELSE LET writes == QueryRcWrites(iteration[2])
         IN [reference_reference |-> {},
             reference_query |-> writes.reference_query,
             query_reference |-> {},
             query_query |-> writes.query_query]

\* The bits of a relation after the iterations index..count - 1 of a loop,
\* run in this order on bits.
RECURSIVE InOrder(_, _, _, _, _)
InOrder(bits, name, loop, index, count) ==
    IF index >= count THEN bits
    ELSE InOrder(SetAll(bits, IterationWrites(<<loop, index>>)[name]),
                 name, loop, index + 1, count)

SequentialRelations ==
    << InOrder(BitVecRepeat(Len(reference_reference)), "reference_reference",
               "reference_rc", 0, reference_kmer_count),
       InOrder(BitVecRepeat(Len(reference_query)), "reference_query",
               "query_rc", 0, query_kmer_count),
       InOrder(BitVecRepeat(Len(query_reference)), "query_reference",
               "reference_rc", 0, reference_kmer_count),
       InOrder(BitVecRepeat(Len(query_query)), "query_query",
               "query_rc", 0, query_kmer_count) >>

\* The bits of a relation of which exactly the addresses are set.
BitsOf(bits, addresses) == [i \in 1..Len(bits) |-> (i - 1) \in addresses]

C7_DisjointWritesAnyOrder ==
    (pc \in {"unordered", "returned"}) =>
        LET ran == {IterationWrites(iteration) : iteration \in Iterations \ pending}
            Written(name) == UNION {writes[name] : writes \in ran}
        IN /\ (pending = Iterations) =>
                \A one \in Iterations :
                    \A other \in Iterations \ {one} :
                        \A name \in RelationNames :
                            IterationWrites(one)[name] \cap IterationWrites(other)[name] = {}
           /\ reference_reference = BitsOf(reference_reference, Written("reference_reference"))
           /\ reference_query = BitsOf(reference_query, Written("reference_query"))
           /\ query_reference = BitsOf(query_reference, Written("query_reference"))
           /\ query_query = BitsOf(query_query, Written("query_query"))
           /\ (pc = "returned") => relations = SequentialRelations

\* The second iteration of the query_rc loop has run and set a bit while
\* the first iteration of the reference_rc loop has not.
C7_Witness ==
    /\ pc = "unordered"
    /\ <<"reference_rc", 0>> \in pending
    /\ <<"query_rc", 0>> \in pending
    /\ <<"query_rc", 1>> \in Iterations \ pending
    /\ AnyBit(query_query)
    /\ AnyBit(reference_query)

(***************************************************************************)
(* C8.  Every bit of the four relations is false when allocated, and no    *)
(* step of MatchTable::new changes a bit from true to false or resizes a   *)
(* relation.                                                               *)
(***************************************************************************)
StaysSet(bits_before, bits_after) ==
    /\ Len(bits_after) = Len(bits_before)
    /\ \A i \in 1..Len(bits_before) : bits_before[i] => bits_after[i]

C8_Step ==
    /\ (pc = "allocate" /\ pc' # "panicked") =>
        /\ ~AnyBit(reference_reference')
        /\ ~AnyBit(reference_query')
        /\ ~AnyBit(query_reference')
        /\ ~AnyBit(query_query')
    /\ (pc # "allocate") =>
        /\ StaysSet(reference_reference, reference_reference')
        /\ StaysSet(reference_query, reference_query')
        /\ StaysSet(query_reference, query_reference')
        /\ StaysSet(query_query, query_query')

C8_MonotoneBits == [][C8_Step]_vars

\* The second loop is running over relations in which the first loop and
\* an earlier iteration of the second have set bits.
C8_Witness ==
    /\ pc = "query_loop"
    /\ kmer_index \in 1..(query_kmer_count - 1)
    /\ AnyBit(reference_reference)
    /\ AnyBit(query_reference)
    /\ AnyBit(query_query)

(***************************************************************************)
(* C9.  For 1 <= L <= min(|R|, |Q|) MatchTable::new does not panic, and    *)
(* before every outer-loop iteration: the k-mer slice lies within the      *)
(* reverse-complement string, every position the indexes return for the    *)
(* k-mer is below the k-mer count of the indexed sequence, and every       *)
(* address the iteration sets is below the length of the relation.         *)
(***************************************************************************)
PositionsBelow(text, table, pattern, count) ==
    \A i \in 1..Len(Positions(text, table, pattern)) :
        Positions(text, table, pattern)[i] < count

C9_WritesInBounds ==
    PreconditionsHold =>
        /\ pc # "panicked"
        /\ (pc = "reference_loop" /\ kmer_index < reference_kmer_count) =>
            /\ kmer_index + minimum_length <= Len(reference_rc)
            /\ PositionsBelow(reference, reference_index,
                              Kmer(reference_rc, kmer_index), reference_kmer_count)
            /\ PositionsBelow(query, query_index,
                              Kmer(reference_rc, kmer_index), query_kmer_count)
            /\ InBounds(reference_reference, ReferenceRcWrites(kmer_index).reference_reference)
            /\ InBounds(query_reference, ReferenceRcWrites(kmer_index).query_reference)
        /\ (pc = "query_loop" /\ kmer_index < query_kmer_count) =>
            /\ kmer_index + minimum_length <= Len(query_rc)
            /\ PositionsBelow(reference, reference_index,
                              Kmer(query_rc, kmer_index), reference_kmer_count)
            /\ PositionsBelow(query, query_index,
                              Kmer(query_rc, kmer_index), query_kmer_count)
            /\ InBounds(reference_query, QueryRcWrites(kmer_index).reference_query)
            /\ InBounds(query_query, QueryRcWrites(kmer_index).query_query)

\* The last iteration of the second loop is about to set the last bit of
\* reference_query, in a relation that is not square.
C9_Witness ==
    /\ PreconditionsHold
    /\ pc = "query_loop"
    /\ kmer_index = query_kmer_count - 1
    /\ reference_kmer_count > query_kmer_count
    /\ query_kmer_count > 1
    /\ Len(reference_query) - 1 \in QueryRcWrites(kmer_index).reference_query

(***************************************************************************)
(* C10.  For 1 <= L <= min(|R|, |Q|) and all in-range (p, s):              *)
(* has_X_Y_match(p, s) = has_Y_X_match(count(Y) - 1 - s, count(X) - 1 - p) *)
(* for the pairs (reference, reference), (reference, query) and            *)
(* (query, query); (query, reference) is (reference, query) read from the  *)
(* other side.                                                             *)
(***************************************************************************)
C10_ReverseComplementSymmetry ==
    (pc = "returned" /\ PreconditionsHold) =>
        /\ \A p \in KmerIndices(reference), s \in KmerIndices(reference) :
            has_reference_reference_match(p, s) =
                has_reference_reference_match(KmerCountOf(reference) - 1 - s,
                                              KmerCountOf(reference) - 1 - p)
        /\ \A p \in KmerIndices(reference), s \in KmerIndices(query) :
            has_reference_query_match(p, s) =
                has_query_reference_match(KmerCountOf(query) - 1 - s,
                                          KmerCountOf(reference) - 1 - p)
        /\ \A p \in KmerIndices(query), s \in KmerIndices(query) :
            has_query_query_match(p, s) =
                has_query_query_match(KmerCountOf(query) - 1 - s,
                                      KmerCountOf(query) - 1 - p)

\* A match of reference_query whose mirror cell in query_reference is not
\* its transposed cell, and whose transposed cell holds no match.
C10_Witness ==
    /\ pc = "returned"
    /\ PreconditionsHold
    /\ reference_kmer_count = query_kmer_count
    /\ \E p \in KmerIndices(reference), s \in KmerIndices(query) :
        /\ has_reference_query_match(p, s).value
        /\ has_query_reference_match(query_kmer_count - 1 - s,
                                     reference_kmer_count - 1 - p).value
        /\ ~has_query_reference_match(s, p).value

=============================================================================
